---------------------------- MODULE Spec2Model ----------------------------
(***************************************************************************)
(* Model of server.py: the in-memory series store (one bounded deque per   *)
(* configured metric), the CSV durable log (append, reload, compaction)    *)
(* and the two asyncio tasks (poller, compactor) that drive them.          *)
(*                                                                         *)
(* Time is counted in abstract units; the clock never goes backwards.      *)
(* The asyncio tasks run on one event loop, so a task's code between two   *)
(* awaits is one atomic action.                                            *)
(***************************************************************************)
EXTENDS Integers, Sequences, FiniteSets, TLC

VARIABLES
    now,       \* wall clock, time.time() in model units
    series,    \* _series: metric name -> sequence of samples [ts, val]
    file,      \* the file at PERSIST_PATH
    pc,        \* poller: "idle" (in asyncio.sleep) or "sampling" (awaiting the fetch)
    t_ms,      \* the poller's t_ms of the current (or last) cycle
    wakeAt,    \* earliest clock value at which the poller's sleep ends
    cWakeAt,   \* earliest clock value at which the compactor's sleep ends
    restarts,  \* number of process restarts so far
    ev         \* history: what the last operation was and what it was given

vars == <<now, series, file, pc, t_ms, wakeAt, cWakeAt, restarts, ev>>

-----------------------------------------------------------------------------
(* Configuration *)

\* METRICS.items() in dictionary order (the poller's loop order)
MetricOrder == <<"m1", "m2">>

\* the configured metric names, the keys of METRICS and of _series
METRICS == {MetricOrder[i] : i \in 1..Len(MetricOrder)}

\* a metric name found in a log written under an earlier configuration
OldMetric == "old"

WINDOW_SIZE == 2

RETENTION_MS == 2

POLL_INTERVAL == 1

\* max(1.0, COMPACT_INTERVAL_MIN * 60.0)
COMPACT_INTERVAL == 1

\* the precision of the value column, f"{val:.12g}"
SIG_DIGITS == 12

\* bounds of the model
StartTime == 3

MaxTime == 5

MaxRestarts == 1

\* bounds of the log taken alone (LogSpec)
MaxLines == 3

MaxBatches == 2

\* bounds of the compactor and the reload taken alone (CompactSpec)
MaxCompacts == 2

MaxLoads == 2

\* bounds of the series store taken alone (StoreSpec)
MaxCap == 3

MaxHorizon == 3

MaxTs == 5

-----------------------------------------------------------------------------
(* Floats and their text in the value column.                               *)
(* A float is identified by the significant decimal digits d of its         *)
(* shortest representation (first digit non-zero, last digit non-zero       *)
(* unless the float is a single digit) and a decimal exponent e.            *)

VShort == [d |-> <<5>>, e |-> 0]

VMid == [d |-> <<1, 0, 7>>, e |-> 1]

\* thirteen significant digits
VLong == [d |-> <<1, 2, 3, 4, 5, 6, 7, 8, 9, 0, 1, 2, 7>>, e |-> 0]

RECURSIVE StripZeros(_)
StripZeros(s) ==
    IF Len(s) > 1 /\ s[Len(s)] = 0 THEN StripZeros(SubSeq(s, 1, Len(s) - 1))
    ELSE s

RECURSIVE IncDigits(_)
\* add one unit in the last place; the result has one more digit on a full carry
IncDigits(s) ==
    IF s = <<>> THEN <<1>>
    ELSE IF s[Len(s)] < 9 THEN [s EXCEPT ![Len(s)] = @ + 1]
    ELSE Append(IncDigits(SubSeq(s, 1, Len(s) - 1)), 0)

\* the digits of v rounded to n significant digits (the digit after the n-th
\* decides; the values of the model have no tie there)
RoundDigits(v, n) ==
    IF Len(v.d) <= n THEN v
    ELSE LET kept == SubSeq(v.d, 1, n)
             up   == IF v.d[n + 1] >= 5 THEN IncDigits(kept) ELSE kept
         IN  IF Len(up) > n
             THEN [d |-> StripZeros(SubSeq(up, 1, n)), e |-> v.e + 1]
             ELSE [d |-> StripZeros(up), e |-> v.e]

\* A text of the value column: ok says whether float() accepts it, f is the
\* decimal number it spells.  A text of the timestamp column: ok says whether
\* int() accepts it, n is the integer it spells.
FloatText(f) == [ok |-> TRUE, f |-> f]

IntText(n) == [ok |-> TRUE, n |-> n]

\* a text of the value column that float() rejects
BadText == [ok |-> FALSE, f |-> VShort]

\* a text of the timestamp column that int() rejects
BadTs == [ok |-> FALSE, n |-> 0]

\* (mutant) six significant digits, as "%g" gives
Fmt6g(val) == FloatText(RoundDigits(val, 6))

\* f"{val:.12g}": the text of val with at most SIG_DIGITS significant digits
Fmt12g(val) == FloatText(RoundDigits(val, SIG_DIGITS))

\* float(row["value"]) of a text float() accepts: the float nearest to the
\* decimal number, whose shortest representation is that number again (the
\* texts of the model have at most 13 digits)
ParseFloat(text) == text.f

\* int(row["ts_ms"]) of a text int() accepts
ParseInt(text) == text.n

-----------------------------------------------------------------------------
(* Series store *)

EmptySeries == [m \in METRICS |-> <<>>]

\* (mutant) a list that is never trimmed to the capacity
DequeAppendUnbounded(s, x, cap) == Append(s, x)

\* deque(maxlen=cap).append(x): a full deque drops its head first
DequeAppend(s, x, cap) ==
    IF cap = 0 THEN <<>>
    ELSE IF Len(s) >= cap THEN Append(SubSeq(s, Len(s) - cap + 2, Len(s)), x)
    ELSE Append(s, x)

RECURSIVE EvictOldInclusive(_, _, _)
\* (mutant) a sample as old as the horizon is dropped too
EvictOldInclusive(s, t, horizon) ==
    IF s /= <<>> /\ (t - s[1].ts) >= horizon
    THEN EvictOldInclusive(Tail(s), t, horizon)
    ELSE s

RECURSIVE EvictOld(_, _, _)
\* while _series[name] and (t_ms - _series[name][0][0]) > RETENTION_MS: popleft()
EvictOld(s, t, horizon) ==
    IF s /= <<>> /\ (t - s[1].ts) > horizon THEN EvictOld(Tail(s), t, horizon)
    ELSE s

\* (mutant) the append without the drop by time
PollerAppendNoEvict(s, t, v, cap, horizon) ==
    DequeAppend(s, [ts |-> t, val |-> v], cap)

\* the poller's append of one sample: lines 242-245
PollerAppend(s, t, v, cap, horizon) ==
    EvictOld(DequeAppend(s, [ts |-> t, val |-> v], cap), t, horizon)

-----------------------------------------------------------------------------
(* The durable log: a CSV file.                                             *)
(* file.exists: PERSIST_PATH.exists().  file.hdr: "schema" when the first   *)
(* line is ts_ms,metric,value; "none" when the file has no header line (an  *)
(* empty file, or data lines only: csv.DictReader then takes the first line *)
(* as the field names); "wider" when the first line names the three columns *)
(* of the schema and a fourth one after them.  file.lines: the lines after  *)
(* the header line, each                                                    *)
(* with the texts of its three columns and its kind: "row", a line of three *)
(* fields; "quote", a line whose metric field opens a double-quoted field   *)
(* that the line does not close; "unreadable", a line at which the csv      *)
(* reader raises csv.Error (a field longer than the field size limit);      *)
(* "torn_ts", "torn_metric", "torn_value", a last line without its line end *)
(* that stops in the named column (the process died while writing it): ts   *)
(* holds the timestamp digits written, metric the name when it was written  *)
(* in full, value.f.d the digits of the value written so far.               *)

PERSIST_ENABLED == TRUE

NoFile == [exists |-> FALSE, hdr |-> "none", lines |-> <<>>]

EmptyFile == [exists |-> TRUE, hdr |-> "none", lines |-> <<>>]

Line(t, m, text) ==
    [kind |-> "row", ts |-> IntText(t), metric |-> m, value |-> text]

\* the metric field csv.reader returns for a quoted field that runs over
\* line ends: never a configured name
GarbledMetric == "garbled"

FirstOfKind(ls, k) ==
    LET js == {j \in 2..Len(ls) : ls[j].kind = k}
    IN  IF js = {} THEN 0 ELSE CHOOSE j \in js : \A i \in js : j <= i

TornKinds == {"torn_ts", "torn_metric", "torn_value"}

RECURSIVE Digits(_)
\* the decimal digits of a natural number
Digits(n) == IF n < 10 THEN <<n>> ELSE Append(Digits(n \div 10), n % 10)

RECURSIVE Pow10(_)
Pow10(k) == IF k = 0 THEN 1 ELSE 10 * Pow10(k - 1)

\* the digits of the text of a float in positional notation (exponent >= 0)
TextDigits(f) ==
    IF Len(f.d) <= f.e + 1 THEN f.d \o [i \in 1..(f.e + 1 - Len(f.d)) |-> 0]
    ELSE f.d

\* the float spelled by the digits raw of a text whose full form has the
\* exponent e: digits before the decimal point only, or beyond it
SpelledFloat(raw, e) ==
    IF Len(raw) <= e + 1 THEN [d |-> StripZeros(raw), e |-> Len(raw) - 1]
    ELSE [d |-> StripZeros(raw), e |-> e]

\* the record csv.DictReader yields for a line: for a torn line the columns
\* not written are None, and the value column is what was written of it
AsRecord(l) ==
    IF l.kind = "torn_value"
    THEN [kind |-> "row", ts |-> l.ts, metric |-> l.metric,
          value |-> IF l.value.f.d = <<>> THEN BadText
                    ELSE FloatText(SpelledFloat(l.value.f.d, l.value.f.e))]
    ELSE IF l.kind \in TornKinds
    THEN [kind |-> "row", ts |-> l.ts, metric |-> GarbledMetric, value |-> BadText]
    ELSE l

\* the line that results when the row r is written after the torn line l:
\* the text of r continues the column in which l stops, and the columns of r
\* beyond the third are ignored by the reader
MergedLine(l, r) ==
    LET q == Digits(r.ts.n)
    IN  IF l.kind = "torn_ts"
        THEN [kind |-> "row",
              ts |-> IntText(l.ts.n * Pow10(Len(q)) + r.ts.n),
              metric |-> r.metric, value |-> r.value]
        ELSE IF l.kind = "torn_metric"
        THEN [kind |-> "row", ts |-> l.ts, metric |-> GarbledMetric,
              value |-> BadText]
        ELSE [kind |-> "row", ts |-> l.ts, metric |-> l.metric,
              value |-> FloatText(SpelledFloat(l.value.f.d \o q, l.value.f.e))]

\* the line left when the process dies while writing the row r: in the
\* timestamp column (all its digits written), in the metric column, or in the
\* value column after k digits
TornLines(r) ==
    { [r EXCEPT !.kind = "torn_ts"], [r EXCEPT !.kind = "torn_metric"] } \cup
    { [r EXCEPT !.kind = "torn_value",
                !.value = [ok |-> TRUE,
                           f  |-> [d |-> SubSeq(TextDigits(r.value.f), 1, k),
                                   e |-> r.value.f.e]]] :
        k \in 0..Len(TextDigits(r.value.f)) }

RECURSIVE CsvRead(_)
\* the iteration of csv.DictReader over the lines after the header: rows, the
\* records it yields, and err, whether it then raises.  A line that opens a
\* quoted field is one record together with every line up to the next double
\* quote (or the end of the file).
CsvRead(ls) ==
    IF ls = <<>> THEN [rows |-> <<>>, err |-> FALSE]
    ELSE IF ls[1].kind = "unreadable" THEN [rows |-> <<>>, err |-> TRUE]
    ELSE IF ls[1].kind \in {"row"} \cup TornKinds
    THEN LET rest == CsvRead(Tail(ls))
         IN  [rows |-> <<AsRecord(ls[1])>> \o rest.rows, err |-> rest.err]
    ELSE LET close == FirstOfKind(ls, "quote")
             bad   == FirstOfKind(ls, "unreadable")
         IN  IF bad /= 0 /\ (close = 0 \/ bad < close)
             THEN [rows |-> <<>>, err |-> TRUE]
             ELSE IF close = 0
             THEN [rows |-> <<[kind |-> "row", ts |-> ls[1].ts,
                              metric |-> GarbledMetric, value |-> BadText]>>,
                   err |-> FALSE]
             ELSE LET rest == CsvRead(SubSeq(ls, close + 1, Len(ls)))
                  IN  [rows |-> <<[kind |-> "row", ts |-> ls[1].ts,
                                   metric |-> GarbledMetric,
                                   value |-> ls[close].value]>> \o rest.rows,
                       err |-> rest.err]

\* the rows _persist_append writes for a batch, in the batch's order
BatchRows(t, batch) ==
    [i \in 1..Len(batch) |-> Line(t, batch[i].name, Fmt12g(batch[i].val))]

\* the lines of a file opened for append after the rows are written: the
\* first row continues a last line that has no line end
AppendLines(ls, rows) ==
    IF ls /= <<>> /\ rows /= <<>> /\ ls[Len(ls)].kind \in TornKinds
    THEN SubSeq(ls, 1, Len(ls) - 1) \o <<MergedLine(ls[Len(ls)], rows[1])>>
         \o Tail(rows)
    ELSE ls \o rows

\* _persist_append without an error: the header first when the file is new
PersistAppend(f, t, batch) ==
    IF ~PERSIST_ENABLED THEN f
    ELSE [exists |-> TRUE,
          hdr    |-> IF f.exists THEN f.hdr ELSE "schema",
          lines  |-> AppendLines(f.lines, BatchRows(t, batch))]

\* the files left when the process dies inside _persist_append while it
\* writes a row: the rows before it in full, then the torn line
PersistTorn(f, t, batch) ==
    LET rows == BatchRows(t, batch)
    IN  {[exists |-> TRUE,
          hdr    |-> IF f.exists THEN f.hdr ELSE "schema",
          lines  |-> AppendLines(f.lines, SubSeq(rows, 1, k - 1)) \o <<l>>] :
            <<k, l>> \in UNION {{<<j, x>> : x \in TornLines(rows[j])} :
                                  j \in 1..Len(rows)}}

\* the files _persist_append can leave behind when it raises: nothing done
\* (mkdir or open failed), or the file created and only the first k lines
\* of the output written
PersistFailures(f, t, batch) ==
    LET rows == BatchRows(t, batch)
    IN  {f}
        \cup (IF f.exists THEN {} ELSE {EmptyFile})
        \cup {[exists |-> TRUE,
               hdr    |-> IF f.exists THEN f.hdr ELSE "schema",
               lines  |-> f.lines \o SubSeq(rows, 1, k)] : k \in 0..(Len(rows) - 1)}

\* (mutant) a row that does not parse discards what was loaded before it
LoadRowBadClears(s, r, cutoff) ==
    IF ~r.ts.ok \/ ~r.value.ok THEN [m \in DOMAIN s |-> <<>>]
    ELSE IF ParseInt(r.ts) < cutoff THEN s
    ELSE IF r.metric \notin DOMAIN s THEN s
    ELSE [s EXCEPT ![r.metric] =
              DequeAppend(@, [ts |-> ParseInt(r.ts), val |-> ParseFloat(r.value)],
                          WINDOW_SIZE)]

\* one row of the load loop, lines 157-167
LoadRow(s, r, cutoff) ==
    IF ~r.ts.ok THEN s
    ELSE IF ParseInt(r.ts) < cutoff THEN s
    ELSE IF r.metric \notin DOMAIN s THEN s
    ELSE IF ~r.value.ok THEN s
    ELSE [s EXCEPT ![r.metric] =
              DequeAppend(@, [ts |-> ParseInt(r.ts), val |-> ParseFloat(r.value)],
                          WINDOW_SIZE)]

RECURSIVE LoadRows(_, _, _)
\* the load loop over the rows csv.DictReader yields, in file order
LoadRows(s, recs, cutoff) ==
    IF recs = <<>> THEN s
    ELSE LoadRows(LoadRow(s, recs[1], cutoff), Tail(recs), cutoff)

\* _load_history_into_memory at clock value t, into the series s: the rows
\* read before the reader raises are loaded, the outer except swallows the error
LoadHistory(s, f, t) ==
    IF ~(PERSIST_ENABLED /\ f.exists) THEN s
    ELSE IF f.hdr /= "schema" THEN s
    ELSE LoadRows(s, CsvRead(f.lines).rows, t - RETENTION_MS)

\* (mutant) the row at the cutoff itself is dropped
CompactKeepsStrict(r, cutoff) ==
    /\ r.ts.ok
    /\ ParseInt(r.ts) > cutoff
    /\ r.metric \in METRICS

\* the test of the compaction loop, lines 186-188
CompactKeeps(r, cutoff) ==
    /\ r.ts.ok
    /\ ParseInt(r.ts) >= cutoff
    /\ r.metric \in METRICS

\* _compact_csv at clock value t without an I/O error.  When the reader
\* raises, the except removes the temporary file and the log is left as it
\* is.  The header is not compared with CSV_HEADER: the reader's field names
\* are those of the first line, whatever it is.  When they include the three
\* names of the schema the rows are read by name; when they do not,
\* row["ts_ms"] raises for every record and no row is written.
CompactCsv(f, t) ==
    IF ~(PERSIST_ENABLED /\ f.exists) THEN f
    ELSE IF CsvRead(f.lines).err THEN f
    ELSE [exists |-> TRUE,
          hdr    |-> "schema",
          lines  |-> IF f.hdr \in {"schema", "wider"}
                     THEN SelectSeq(CsvRead(f.lines).rows,
                                    LAMBDA r : CompactKeeps(r, t - RETENTION_MS))
                     ELSE <<>>]

-----------------------------------------------------------------------------
(* The poller's inputs *)

\* what the extraction of one metric gives: a float, or an exception (the path
\* does not resolve, the value does not parse, the scaling raises)
Got(v) == [ok |-> TRUE, val |-> v]

NoValue == [ok |-> FALSE, val |-> VShort]

\* the upstream payloads of the model, each as the extraction result per metric
Payloads ==
    { [m1 |-> Got(VShort), m2 |-> Got(VLong)],
      [m1 |-> NoValue,     m2 |-> Got(VShort)],
      [m1 |-> Got(VLong),  m2 |-> NoValue],
      [m1 |-> NoValue,     m2 |-> NoValue] }

AllFail == [m \in METRICS |-> NoValue]

\* the metrics of a payload whose extraction succeeds
Extracted(payload) == {m \in METRICS : payload[m].ok}

\* batch_to_persist as the sequence of its items, in METRICS order
Batch(payload) ==
    LET ok == SelectSeq(MetricOrder, LAMBDA m : payload[m].ok)
    IN  [i \in 1..Len(ok) |-> [name |-> ok[i], val |-> payload[ok[i]].val]]

\* (mutant) one failing metric makes the cycle skip every metric
CycleSeriesAllOrNothing(s, t, payload) ==
    IF \E m \in METRICS : ~payload[m].ok THEN s
    ELSE [m \in METRICS |->
            PollerAppend(s[m], t, payload[m].val, WINDOW_SIZE, RETENTION_MS)]

\* the metric loop of one cycle, lines 228-249
CycleSeries(s, t, payload) ==
    [m \in METRICS |->
        IF payload[m].ok
        THEN PollerAppend(s[m], t, payload[m].val, WINDOW_SIZE, RETENTION_MS)
        ELSE s[m]]

-----------------------------------------------------------------------------
(* The process *)

\* logs left by earlier runs of the program
InitFiles ==
    { NoFile,
      [exists |-> TRUE, hdr |-> "schema",
       lines |-> << Line(0, "m1", FloatText(VShort)),
                    Line(1, OldMetric, FloatText(VShort)),
                    Line(1, "m2", FloatText(VShort)),
                    Line(2, "m1", FloatText(VShort)) >>],
      [exists |-> TRUE, hdr |-> "schema",
       lines |-> << Line(1, "m1", FloatText(VShort)),
                    Line(2, "m1", FloatText(VMid)),
                    Line(3, "m1", FloatText(VShort)) >>] }

\* ev.op: the last operation ("start", "poll", "compact"); fetchOK, payload,
\* persist ("none", "ok", "fail"), cycleT: the fetch, the payload, the outcome
\* of _persist_append and the t_ms of the last completed poll cycle; log: the
\* outcome of the last operation on the log since the process started;
\* failed: whether a _persist_append has raised since the process started
FirstEvent ==
    [op |-> "start", fetchOK |-> FALSE, payload |-> AllFail,
     persist |-> "none", cycleT |-> 0, log |-> "none", failed |-> FALSE]

\* on_startup at clock value t with the file f: fresh deques, the reload, then
\* the two tasks (the compactor sleeps min(5.0, POLL_INTERVAL) first)
Startup(f, t) ==
    /\ series' = LoadHistory(EmptySeries, f, t)
    /\ pc' = "idle"
    /\ t_ms' = t
    /\ wakeAt' = t
    /\ cWakeAt' = t + POLL_INTERVAL
    /\ ev' = [ev EXCEPT !.op = "start", !.log = "none", !.failed = FALSE]

Init ==
    /\ now = StartTime
    /\ file \in InitFiles
    /\ series = LoadHistory(EmptySeries, file, now)
    /\ pc = "idle"
    /\ t_ms = now
    /\ wakeAt = now
    /\ cWakeAt = now + POLL_INTERVAL
    /\ restarts = 0
    /\ ev = FirstEvent

\* time passes
Tick ==
    /\ now < MaxTime
    /\ now' = now + 1
    /\ UNCHANGED <<series, file, pc, t_ms, wakeAt, cWakeAt, restarts, ev>>

\* the top of the poller's loop: t_ms is taken, the fetch is awaited
PollStart ==
    /\ pc = "idle"
    /\ now >= wakeAt
    /\ pc' = "sampling"
    /\ t_ms' = now
    /\ UNCHANGED <<now, series, file, wakeAt, cWakeAt, restarts, ev>>

\* (mutant) a failed fetch records a sample for every metric all the same
PollFetchFailsRecords ==
    /\ pc = "sampling"
    /\ pc' = "idle"
    /\ wakeAt' = now + POLL_INTERVAL
    /\ series' = CycleSeries(series, t_ms, [m \in METRICS |-> Got(VShort)])
    /\ ev' = [ev EXCEPT !.op = "poll", !.fetchOK = FALSE, !.payload = AllFail,
                         !.persist = "none", !.cycleT = t_ms]
    /\ UNCHANGED <<now, file, t_ms, cWakeAt, restarts>>

\* (mutant) a failed fetch ends the poller
PollFetchFailsStops ==
    /\ pc = "sampling"
    /\ pc' = "stopped"
    /\ ev' = [ev EXCEPT !.op = "poll", !.fetchOK = FALSE, !.payload = AllFail,
                         !.persist = "none", !.cycleT = t_ms]
    /\ UNCHANGED <<now, series, file, t_ms, wakeAt, cWakeAt, restarts>>

\* the fetch raises (network error, timeout, HTTP status, undecodable body):
\* the outer except, then the sleep
PollFetchFails ==
    /\ pc = "sampling"
    /\ pc' = "idle"
    /\ wakeAt' = now + POLL_INTERVAL
    /\ ev' = [ev EXCEPT !.op = "poll", !.fetchOK = FALSE, !.payload = AllFail,
                         !.persist = "none", !.cycleT = t_ms]
    /\ UNCHANGED <<now, series, file, t_ms, cWakeAt, restarts>>

\* (mutant) a failed append to the log undoes the cycle's appends to the series
PollCycleRollback(payload, persistOK, after) ==
    /\ pc = "sampling"
    /\ Batch(payload) /= <<>>
    /\ IF persistOK
       THEN /\ after = PersistAppend(file, t_ms, Batch(payload))
            /\ series' = CycleSeries(series, t_ms, payload)
       ELSE /\ after \in PersistFailures(file, t_ms, Batch(payload))
            /\ series' = series
    /\ file' = after
    /\ ev' = [ev EXCEPT !.op = "poll", !.fetchOK = TRUE, !.payload = payload,
                        !.persist = IF persistOK THEN "ok" ELSE "fail",
                        !.cycleT = t_ms,
                        !.log = IF persistOK THEN "append_ok" ELSE "append_fail",
                        !.failed = @ \/ ~persistOK]
    /\ pc' = "idle"
    /\ wakeAt' = now + POLL_INTERVAL
    /\ UNCHANGED <<now, t_ms, cWakeAt, restarts>>

\* the fetch returns a payload: the metric loop, the append to the log when the
\* batch is not empty (persistOK: whether _persist_append returns or raises,
\* after: the file it leaves), then the sleep
PollCycle(payload, persistOK, after) ==
    /\ pc = "sampling"
    /\ series' = CycleSeries(series, t_ms, payload)
    /\ IF Batch(payload) = <<>>
       THEN /\ persistOK
            /\ after = file
            /\ file' = file
            /\ ev' = [ev EXCEPT !.op = "poll", !.fetchOK = TRUE, !.payload = payload,
                                !.persist = "none", !.cycleT = t_ms]
       ELSE /\ IF persistOK
               THEN after = PersistAppend(file, t_ms, Batch(payload))
               ELSE after \in PersistFailures(file, t_ms, Batch(payload))
            /\ file' = after
            /\ ev' = [ev EXCEPT !.op = "poll", !.fetchOK = TRUE, !.payload = payload,
                                !.persist = IF persistOK THEN "ok" ELSE "fail",
                                !.cycleT = t_ms,
                                !.log = IF persistOK THEN "append_ok" ELSE "append_fail",
                                !.failed = @ \/ ~persistOK]
    /\ pc' = "idle"
    /\ wakeAt' = now + POLL_INTERVAL
    /\ UNCHANGED <<now, t_ms, cWakeAt, restarts>>

PollFinish ==
    \E payload \in Payloads, persistOK \in BOOLEAN :
        \E after \in {PersistAppend(file, t_ms, Batch(payload))}
                      \cup PersistFailures(file, t_ms, Batch(payload)) :
            PollCycle(payload, persistOK, after)

\* the value of cWakeAt once the compactor task has ended
Ended == -1

\* _compact_csv raises: PERSIST_PATH.exists() on line 174 and tmp_path.exists()
\* on line 195 stand outside a try, and Path.exists() re-raises every OSError
\* but ENOENT, ENOTDIR, EBADF and ELOOP (a directory that may not be searched:
\* PermissionError).  compactor_loop has no try: the task ends.
CompactRaises ==
    /\ PERSIST_ENABLED
    /\ cWakeAt /= Ended
    /\ now >= cWakeAt
    /\ cWakeAt' = Ended
    /\ ev' = [ev EXCEPT !.op = "compact", !.log = "compact_fail"]
    /\ UNCHANGED <<now, series, file, pc, t_ms, wakeAt, restarts>>

\* one round of compactor_loop: _compact_csv, then the sleep.  ok: whether the
\* body of the try runs to the end or raises (the file is then left as it is)
Compact(ok) ==
    /\ PERSIST_ENABLED
    /\ cWakeAt /= Ended
    /\ now >= cWakeAt
    /\ cWakeAt' = now + COMPACT_INTERVAL
    /\ IF ~file.exists
       THEN /\ ok
            /\ UNCHANGED <<file, ev>>
       ELSE /\ file' = IF ok THEN CompactCsv(file, now) ELSE file
            /\ ev' = [ev EXCEPT !.op = "compact",
                                !.log = IF ok /\ ~CsvRead(file.lines).err
                                        THEN "compact_ok" ELSE "compact_fail"]
    /\ UNCHANGED <<now, series, pc, t_ms, wakeAt, restarts>>

\* the process ends (at any point) and is started again: on_startup
Restart ==
    /\ restarts < MaxRestarts
    /\ restarts' = restarts + 1
    /\ Startup(file, now)
    /\ UNCHANGED <<now, file>>

Next ==
    \/ Tick
    \/ PollStart
    \/ PollFetchFails
    \/ PollFinish
    \/ \E ok \in BOOLEAN : Compact(ok)
    \/ CompactRaises
    \/ Restart

Spec == Init /\ [][Next]_vars

\* The poller task alone, from a start without a log.  The clock advances,
\* the sleep of line 259 ends once its time has come, and the fetch of line
\* 224 returns or raises (the client has a timeout).
LiveInit == Init /\ file = NoFile

LiveNext == Tick \/ PollStart \/ PollFetchFails \/ PollFinish

LiveSpec ==
    /\ LiveInit /\ [][LiveNext]_vars
    /\ WF_vars(Tick)
    /\ WF_vars(PollStart)
    /\ WF_vars(PollFetchFails \/ PollFinish)

-----------------------------------------------------------------------------
(* The series store taken alone: appends with strictly increasing           *)
(* timestamps to one metric, for every capacity and every horizon.          *)
(* ev.cap, ev.hor: the capacity and the horizon; ev.appended: the           *)
(* timestamps appended so far; t_ms: the latest of them.                    *)

StoreInit ==
    /\ now = 0
    /\ file = NoFile
    /\ series = EmptySeries
    /\ pc = "idle"
    /\ t_ms = 0
    /\ wakeAt = 0
    /\ cWakeAt = 0
    /\ restarts = 0
    /\ \E c \in 0..MaxCap, h \in 0..MaxHorizon :
           ev = [op |-> "store", cap |-> c, hor |-> h, appended |-> <<>>]

StoreAppend ==
    \E t \in (t_ms + 1)..MaxTs :
        /\ series' = [series EXCEPT !["m1"] = PollerAppend(@, t, VShort, ev.cap, ev.hor)]
        /\ t_ms' = t
        /\ ev' = [ev EXCEPT !.appended = Append(@, t)]
        /\ UNCHANGED <<now, file, pc, wakeAt, cWakeAt, restarts>>

StoreNext == StoreAppend

StoreSpec == StoreInit /\ [][StoreNext]_vars

-----------------------------------------------------------------------------
(* The log taken alone: a file of up to MaxLines lines of any kind, up to   *)
(* MaxBatches appends of a batch one time unit apart, then one reload into  *)
(* empty series.  ev.pre: the file before the appends; ev.batches: the      *)
(* appended batches, each with its timestamp t and its payload.             *)

SeqsUpTo(S, n) == UNION {[1..k -> S] : k \in 0..n}

LogLines ==
    { Line(StartTime, "m1", FloatText(VShort)),
      Line(StartTime - 1, "m1", FloatText(VMid)),
      Line(StartTime - RETENTION_MS, "m2", FloatText(VShort)),
      Line(StartTime - RETENTION_MS - 1, "m1", FloatText(VShort)),
      Line(StartTime, OldMetric, FloatText(VShort)),
      [Line(StartTime, "m1", FloatText(VShort)) EXCEPT !.ts = BadTs],
      Line(StartTime, "m1", BadText),
      [Line(StartTime, "m1", FloatText(VShort)) EXCEPT !.kind = "quote"],
      [Line(StartTime, "m1", FloatText(VShort)) EXCEPT !.kind = "unreadable"] }

LogFiles ==
    {NoFile} \cup
    {[exists |-> TRUE, hdr |-> h, lines |-> ls] :
        h \in {"schema", "none", "wider"}, ls \in SeqsUpTo(LogLines, MaxLines)}

LogInit ==
    /\ now = StartTime
    /\ file \in LogFiles
    /\ series = EmptySeries
    /\ pc = "idle"
    /\ t_ms = 0
    /\ wakeAt = 0
    /\ cWakeAt = 0
    /\ restarts = 0
    /\ ev = [op |-> "init", pre |-> file, batches |-> <<>>]

\* _persist_append(now, batch) for the batch of a payload
LogAppend ==
    \E payload \in Payloads :
        /\ ev.op \in {"init", "append"}
        /\ Len(ev.batches) < MaxBatches
        /\ Batch(payload) /= <<>>
        /\ file' = PersistAppend(file, now, Batch(payload))
        /\ now' = now + 1
        /\ ev' = [ev EXCEPT !.op = "append",
                            !.batches = Append(@, [t |-> now, payload |-> payload])]
        /\ UNCHANGED <<series, pc, t_ms, wakeAt, cWakeAt, restarts>>

\* _load_history_into_memory() at the clock value now
LogLoad ==
    /\ ev.op \in {"init", "append"}
    /\ series' = LoadHistory(series, file, now)
    /\ ev' = [ev EXCEPT !.op = "load"]
    /\ UNCHANGED <<now, file, pc, t_ms, wakeAt, cWakeAt, restarts>>

LogNext == LogAppend \/ LogLoad

LogSpec == LogInit /\ [][LogNext]_vars

-----------------------------------------------------------------------------
(* The compactor and the reload taken alone, at one clock value: a file of  *)
(* up to MaxLines lines of any kind under any header, up to MaxCompacts     *)
(* compactions, then up to MaxLoads reloads into the same series.           *)
(* ev.pre: the file at the start; ev.files: the file after each compaction; *)
(* ev.loaded: the series after each reload.                                 *)

CsInit ==
    /\ now = StartTime
    /\ file \in LogFiles
    /\ series = EmptySeries
    /\ pc = "idle"
    /\ t_ms = 0
    /\ wakeAt = 0
    /\ cWakeAt = 0
    /\ restarts = 0
    /\ ev = [op |-> "init", pre |-> file, files |-> <<>>, loaded |-> <<>>]

\* _compact_csv() at the clock value now, without an I/O error
CsCompact ==
    /\ ev.op \in {"init", "compact"}
    /\ Len(ev.files) < MaxCompacts
    /\ file' = CompactCsv(file, now)
    /\ ev' = [ev EXCEPT !.op = "compact", !.files = Append(@, file')]
    /\ UNCHANGED <<now, series, pc, t_ms, wakeAt, cWakeAt, restarts>>

\* _load_history_into_memory() at the clock value now
CsLoad ==
    /\ Len(ev.loaded) < MaxLoads
    /\ series' = LoadHistory(series, file, now)
    /\ ev' = [ev EXCEPT !.op = "load", !.loaded = Append(@, series')]
    /\ UNCHANGED <<now, file, pc, t_ms, wakeAt, cWakeAt, restarts>>

CsNext == CsCompact \/ CsLoad

CompactSpec == CsInit /\ [][CsNext]_vars

-----------------------------------------------------------------------------
(* One append of the poller to a series in any state a deque of the         *)
(* capacity can hold, with timestamps in any order (the log is reloaded in  *)
(* file order, and t_ms is the wall clock), for every capacity and horizon. *)
(* ev.prior: the series before the append; ev.t: the timestamp appended.    *)

Stamps == {[ts |-> t, val |-> VShort] : t \in 0..MaxTs}

RefInit ==
    /\ now = 0
    /\ file = NoFile
    /\ pc = "idle"
    /\ t_ms = 0
    /\ wakeAt = 0
    /\ cWakeAt = 0
    /\ restarts = 0
    /\ \E c \in 0..MaxCap, h \in 0..MaxHorizon :
          \E prior \in SeqsUpTo(Stamps, c) :
              /\ series = [m \in METRICS |-> IF m = "m1" THEN prior ELSE <<>>]
              /\ ev = [op |-> "prior", cap |-> c, hor |-> h, prior |-> prior,
                       t |-> 0]

\* lines 242-245 for the metric m1 with the timestamp t
RefAppend ==
    \E t \in 0..MaxTs :
        /\ ev.op = "prior"
        /\ series' = [series EXCEPT !["m1"] = PollerAppend(@, t, VMid, ev.cap, ev.hor)]
        /\ t_ms' = t
        /\ ev' = [ev EXCEPT !.op = "appended", !.t = t]
        /\ UNCHANGED <<now, file, pc, wakeAt, cWakeAt, restarts>>

RefNext == RefAppend

RefineSpec == RefInit /\ [][RefNext]_vars

-----------------------------------------------------------------------------
(* A torn append: the process dies inside _persist_append and leaves a last *)
(* line without its line end; after the restart up to MaxBatches batches    *)
(* are appended one time unit apart, then the process restarts and reloads. *)
(* ev.pre: the file at the start; ev.torn: the batch that was being         *)
(* written; ev.batches: the batches appended after it.                      *)

TornInit ==
    /\ now = StartTime
    /\ file \in {NoFile,
                  [exists |-> TRUE, hdr |-> "schema",
                   lines |-> <<Line(StartTime - 1, "m1", FloatText(VMid))>>]}
    /\ series = EmptySeries
    /\ pc = "idle"
    /\ t_ms = 0
    /\ wakeAt = 0
    /\ cWakeAt = 0
    /\ restarts = 0
    /\ ev = [op |-> "init", pre |-> file, torn |-> <<>>, batches |-> <<>>]

\* _persist_append(now, batch) cut short by the end of the process
TornCrash ==
    \E payload \in Payloads :
        /\ ev.op = "init"
        /\ Batch(payload) /= <<>>
        /\ file' \in PersistTorn(file, now, Batch(payload))
        /\ now' = now + 1
        /\ ev' = [ev EXCEPT !.op = "torn",
                            !.torn = <<[t |-> now, payload |-> payload]>>]
        /\ UNCHANGED <<series, pc, t_ms, wakeAt, cWakeAt, restarts>>

\* _persist_append(now, batch) of a later poll cycle
TornAppend ==
    \E payload \in Payloads :
        /\ ev.op \in {"torn", "append"}
        /\ Len(ev.batches) < MaxBatches
        /\ Batch(payload) /= <<>>
        /\ file' = PersistAppend(file, now, Batch(payload))
        /\ now' = now + 1
        /\ ev' = [ev EXCEPT !.op = "append",
                            !.batches = Append(@, [t |-> now, payload |-> payload])]
        /\ UNCHANGED <<series, pc, t_ms, wakeAt, cWakeAt, restarts>>

\* _load_history_into_memory() at the clock value now
TornLoad ==
    /\ ev.op \in {"torn", "append"}
    /\ series' = LoadHistory(series, file, now)
    /\ ev' = [ev EXCEPT !.op = "load"]
    /\ UNCHANGED <<now, file, pc, t_ms, wakeAt, cWakeAt, restarts>>

TornNext == TornCrash \/ TornAppend \/ TornLoad

TornSpec == TornInit /\ [][TornNext]_vars

-----------------------------------------------------------------------------
(* The /data endpoint and the metric loop.  get_data is a plain def: the    *)
(* framework runs it in a worker thread, and the interpreter may switch     *)
(* between that thread and the event loop's thread between any two          *)
(* statements of the metric loop.  pc: "idle", "push" (before line 242 for  *)
(* the metric MetricOrder[ev.i]), "evict" (at the test of line 244);        *)
(* ev.snap: the series of the last response.                                *)

SnapInit ==
    /\ now = 0
    /\ file = NoFile
    /\ series = EmptySeries
    /\ pc = "idle"
    /\ t_ms = 0
    /\ wakeAt = 0
    /\ cWakeAt = 0
    /\ restarts = 0
    /\ ev = [op |-> "snap", i |-> 0, snap |-> EmptySeries]

\* line 221 and a fetch that returns
SnapCycle ==
    /\ pc = "idle"
    /\ \E t \in (t_ms + 1)..MaxTs : t_ms' = t
    /\ pc' = "push"
    /\ ev' = [ev EXCEPT !.i = 1]
    /\ UNCHANGED <<now, file, series, wakeAt, cWakeAt, restarts>>

\* lines 229-242 for one metric: the extraction raises, or the sample is
\* appended to the deque
SnapPush ==
    /\ pc = "push"
    /\ ev.i <= Len(MetricOrder)
    /\ \/ /\ ev' = [ev EXCEPT !.i = @ + 1]
          /\ UNCHANGED <<series, pc>>
       \/ /\ series' = [series EXCEPT ![MetricOrder[ev.i]] =
                            DequeAppend(@, [ts |-> t_ms, val |-> VShort], WINDOW_SIZE)]
          /\ pc' = "evict"
          /\ UNCHANGED ev
    /\ UNCHANGED <<now, file, t_ms, wakeAt, cWakeAt, restarts>>

\* one round of the while loop of lines 244-245, or its exit and line 247
SnapEvict ==
    /\ pc = "evict"
    /\ LET m == MetricOrder[ev.i]
       IN  IF series[m] /= <<>> /\ t_ms - series[m][1].ts > RETENTION_MS
           THEN /\ series' = [series EXCEPT ![m] = Tail(@)]
                /\ UNCHANGED <<pc, ev>>
           ELSE /\ pc' = "push"
                /\ ev' = [ev EXCEPT !.i = @ + 1]
                /\ UNCHANGED series
    /\ UNCHANGED <<now, file, t_ms, wakeAt, cWakeAt, restarts>>

\* the end of the metric loop
SnapCycleEnd ==
    /\ pc = "push"
    /\ ev.i > Len(MetricOrder)
    /\ pc' = "idle"
    /\ UNCHANGED <<now, file, series, t_ms, wakeAt, cWakeAt, restarts, ev>>

\* get_data, lines 276-278: list(points) of every series
SnapRead ==
    /\ ev' = [ev EXCEPT !.snap = series]
    /\ UNCHANGED <<now, file, series, pc, t_ms, wakeAt, cWakeAt, restarts>>

SnapNext == SnapCycle \/ SnapPush \/ SnapEvict \/ SnapCycleEnd \/ SnapRead

SnapSpec == SnapInit /\ [][SnapNext]_vars

-----------------------------------------------------------------------------
(* Properties *)

Last(s) == s[Len(s)]

Min(a, b) == IF a <= b THEN a ELSE b

\* a step that completes a poll cycle
CycleEnds == pc = "sampling" /\ pc' /= "sampling" /\ ev'.op = "poll"

\* the lines a step adds at the end of the file
AddedLines ==
    IF Len(file'.lines) >= Len(file.lines)
    THEN SubSeq(file'.lines, Len(file.lines) + 1, Len(file'.lines))
    ELSE <<>>

\* the log holds a row for the sample smp of metric m
HasRow(f, m, smp) ==
    \E j \in 1..Len(f.lines) :
        /\ f.lines[j].ts = IntText(smp.ts)
        /\ f.lines[j].metric = m
        /\ f.lines[j].value.ok
        /\ \/ f.lines[j].value = Fmt12g(smp.val)
           \/ ParseFloat(f.lines[j].value) = smp.val

C2_AppendBound ==
    ev.appended /= <<>> =>
        LET s      == series["m1"]
            within == {i \in 1..Len(ev.appended) : t_ms - ev.appended[i] <= ev.hor}
        IN  /\ Len(s) <= Min(ev.cap, Cardinality(within))
            /\ \A i \in 1..(Len(s) - 1) : s[i].ts < s[i + 1].ts

\* three appends, the first of them beyond the horizon of the last, capacity 2
C2_Witness ==
    /\ Len(ev.appended) = 3
    /\ ev.cap = 2
    /\ t_ms - ev.appended[1] > ev.hor
    /\ t_ms - ev.appended[2] <= ev.hor
    /\ Len(series["m1"]) = 2

\* C3: in a cycle whose fetch succeeds, a metric whose extraction fails keeps
\* its series as it was and has no row in the batch, every other metric gets
\* its sample appended and its row written (in METRICS order, when the append
\* to the log succeeds), and a cycle in which every metric fails changes
\* neither the series nor the log.
C3_PartialExtraction ==
    [][ (CycleEnds /\ ev'.fetchOK) =>
          LET got == Extracted(ev'.payload)
          IN  /\ \A m \in METRICS \ got : series'[m] = series[m]
              /\ \A m \in got :
                    /\ series'[m] /= <<>>
                    /\ Last(series'[m]) = [ts |-> t_ms, val |-> ev'.payload[m].val]
              /\ ev'.persist = "ok" =>
                    /\ SubSeq(file'.lines, 1, Len(file.lines)) = file.lines
                    /\ Len(AddedLines) = Cardinality(got)
                    /\ {AddedLines[i].metric : i \in 1..Len(AddedLines)} = got
                    /\ \A i \in 1..Len(AddedLines) : AddedLines[i].ts = IntText(t_ms)
              /\ got = {} => (series' = series /\ file' = file /\ ev'.persist = "none")
      ]_vars

\* a completed cycle in which m1 failed and m2 was appended and written
C3_Witness ==
    /\ ev.op = "poll" /\ ev.fetchOK /\ ev.persist = "ok"
    /\ ~ev.payload["m1"].ok /\ ev.payload["m2"].ok
    /\ series["m1"] /= <<>>
    /\ Last(series["m2"]).ts = ev.cycleT
    /\ HasRow(file, "m2", Last(series["m2"]))

\* C4: a cycle whose fetch fails changes no series and adds no row to the log.
C4_FetchFailureAborts ==
    [][ (CycleEnds /\ ~ev'.fetchOK) => (series' = series /\ file' = file) ]_vars

\* a cycle has ended on a failed fetch, with samples in memory and a log
C4_Witness ==
    /\ ev.op = "poll" /\ ~ev.fetchOK
    /\ series["m1"] /= <<>>
    /\ file.exists

\* C5: when the append to the log fails, the samples the cycle appended to the
\* series stay, and the poller is asleep until its next cycle.
C5_PersistFailureLocal ==
    [][ (CycleEnds /\ ev'.persist = "fail") =>
          /\ \A m \in Extracted(ev'.payload) :
                /\ series'[m] /= <<>>
                /\ Last(series'[m]) = [ts |-> t_ms, val |-> ev'.payload[m].val]
          /\ pc' = "idle"
          /\ wakeAt' = now + POLL_INTERVAL
      ]_vars

\* after a failed append the sample is in memory, has no row, and the poller
\* has started its next cycle
C5_Witness ==
    /\ ev.op = "poll" /\ ev.persist = "fail"
    /\ pc = "sampling"
    /\ t_ms > ev.cycleT
    /\ \E m \in Extracted(ev.payload) :
           /\ Last(series[m]).ts = ev.cycleT
           /\ ~HasRow(file, m, Last(series[m]))

LastN(s, n) == IF Len(s) <= n THEN s ELSE SubSeq(s, Len(s) - n + 1, Len(s))

\* every sample in memory has its row in the log
MemoryInLog ==
    \A m \in METRICS : \A i \in 1..Len(series[m]) : HasRow(file, m, series[m][i])

\* C6: in every reachable state every sample held in memory has a row in the
\* log.  Stated for the runs in which no append to the log has failed since
\* the process started.
C6_LogSupersetOfMemory == ~ev.failed => MemoryInLog

\* C7: once an append to the log has failed, the next successful append or
\* compaction leaves every sample held in memory with a row in the log.
\* Stated for the samples within RETENTION_MS of the clock, which no
\* compaction drops.
C7_Reconciled ==
    (ev.failed /\ ev.log \in {"append_ok", "compact_ok"}) =>
        \A m \in METRICS : \A i \in 1..Len(series[m]) :
            series[m][i].ts >= now - RETENTION_MS => HasRow(file, m, series[m][i])

\* a line reload is to load into the series of metric m
Wanted(l, m, cutoff) ==
    /\ l.kind = "row"
    /\ l.ts.ok /\ l.ts.n >= cutoff
    /\ l.metric = m
    /\ l.value.ok

SamplesOf(ls) == [i \in 1..Len(ls) |-> [ts |-> ls[i].ts.n, val |-> ls[i].value.f]]

\* the newest WINDOW_SIZE of the wanted lines of metric m, in file order
WantedSeries(ls, m, cutoff) ==
    LastN(SamplesOf(SelectSeq(ls, LAMBDA l : Wanted(l, m, cutoff))), WINDOW_SIZE)

AllRows(ls) == \A j \in 1..Len(ls) : ls[j].kind = "row"

BatchSamples(m) ==
    LET bs == SelectSeq(ev.batches,
                        LAMBDA b : b.payload[m].ok /\ b.t >= now - RETENTION_MS)
    IN  [i \in 1..Len(bs) |-> [ts |-> bs[i].t, val |-> bs[i].payload[m].val]]

Rounded(w, v) ==
    IF Len(v.d) <= SIG_DIGITS THEN w = v
    ELSE LET kept == SubSeq(v.d, 1, SIG_DIGITS)
             up   == IncDigits(kept)
         IN  \/ w = [d |-> StripZeros(kept), e |-> v.e]
             \/ w = IF Len(up) > SIG_DIGITS THEN [d |-> <<1>>, e |-> v.e + 1]
                    ELSE [d |-> StripZeros(up), e |-> v.e]

CompactionDone ==
    /\ file.exists
    /\ restarts' = restarts
    /\ cWakeAt' /= cWakeAt
    /\ ev'.op = "compact" /\ ev'.log = "compact_ok"

\* C10: after a successful compaction at clock value now the log is the schema
\* header followed by exactly the lines it held whose timestamp is
\* >= now - RETENTION_MS and whose metric is configured, in their order.
C10_CompactionFilters ==
    [][ CompactionDone =>
          /\ file'.hdr = "schema"
          /\ file'.lines =
                SelectSeq(file.lines,
                          LAMBDA l : /\ l.ts.ok /\ l.ts.n >= now - RETENTION_MS
                                     /\ l.metric \in METRICS)
      ]_vars

\* a log as a compaction leaves it: the schema header, then rows of three
\* fields with a timestamp within the horizon and a configured metric
Compacted(f, cutoff) ==
    /\ f.exists /\ f.hdr = "schema"
    /\ AllRows(f.lines)
    /\ \A j \in 1..Len(f.lines) :
          /\ f.lines[j].ts.ok /\ f.lines[j].ts.n >= cutoff
          /\ f.lines[j].metric \in METRICS

\* C11: a compaction of a log that is already compacted leaves the file as it
\* is, and a second compaction at the same clock value gives the file that
\* the first one gave.
C11_CompactionIdempotent ==
    /\ (Len(ev.files) >= 1 /\ Compacted(ev.pre, now - RETENTION_MS)) =>
           ev.files[1] = ev.pre
    /\ Len(ev.files) >= 2 => ev.files[2] = ev.files[1]

\* a first compaction that drops rows, a second one that finds nothing to drop
C11_Witness ==
    /\ Len(ev.files) = 2
    /\ Len(ev.pre.lines) = 3
    /\ Len(ev.files[1].lines) = 2
    /\ file = ev.files[1]
    /\ \E j \in 1..2 : file.lines[j].ts.n = now - RETENTION_MS

\* a step that is a compaction that failed
CompactionFailed ==
    /\ file.exists
    /\ restarts' = restarts
    /\ cWakeAt' /= cWakeAt
    /\ ev'.op = "compact" /\ ev'.log = "compact_fail"

\* C12: a compaction that fails leaves the file as it was and the poller
\* where it was, and the compactor is scheduled again one period later.
C12_CompactionFailureRetried ==
    [][ CompactionFailed =>
          /\ file' = file
          /\ pc' = pc /\ wakeAt' = wakeAt /\ series' = series
          /\ cWakeAt' = now + COMPACT_INTERVAL
      ]_vars

\* C13: no row appended by the poller is lost by a compaction: while the
\* last cycle whose append succeeded is within RETENTION_MS of the clock, each
\* of its samples has its row in the log, whatever compactions ran since.
C13_NoAppendedRowLost ==
    (ev.persist = "ok" /\ ev.cycleT >= now - RETENTION_MS) =>
        \A m \in Extracted(ev.payload) :
            HasRow(file, m, [ts |-> ev.cycleT, val |-> ev.payload[m].val])

\* C14: no response of /data holds a series in which the new sample is
\* appended and the eviction by age is not yet applied: in every returned
\* series no sample is older than the newest one minus RETENTION_MS.
C14_SnapshotNeverPartial ==
    \A m \in METRICS : \A i \in 1..Len(ev.snap[m]) :
        Last(ev.snap[m]).ts - ev.snap[m][i].ts <= RETENTION_MS

\* the samples of metric m that batches of bs were to write: the timestamp of
\* the batch and the value that its text in the value column spells
WrittenBy(bs, m) ==
    {[ts |-> bs[i].t, val |-> ParseFloat(Fmt12g(bs[i].payload[m].val))] :
        i \in {j \in 1..Len(bs) : bs[j].payload[m].ok}}

\* C15: after a torn append, the rows of the poll cycles that follow are
\* loaded with their own timestamp, metric and value (the newest of them is
\* the newest sample of its series), and every sample that is loaded is one
\* that a poll cycle wrote or was writing, or one of a row the log held
\* before.
C15_TornTailHarmless ==
    (ev.op = "load" /\ ev.batches /= <<>>) =>
        \A m \in METRICS :
            /\ Last(ev.batches).payload[m].ok =>
                  /\ series[m] /= <<>>
                  /\ Last(series[m]) \in WrittenBy(<<Last(ev.batches)>>, m)
            /\ \A i \in 1..Len(series[m]) :
                  \/ series[m][i] \in WrittenBy(ev.torn \o ev.batches, m)
                  \/ \E j \in 1..Len(ev.pre.lines) :
                        /\ ev.pre.lines[j].metric = m
                        /\ series[m][i] = SamplesOf(ev.pre.lines)[j]

\* C16: a file whose header is not the schema's is ignored: no row of it is
\* in memory after a reload, also after compactions have run over it, and no
\* compaction writes out a row of it.
C16_ForeignFileIgnored ==
    (ev.pre.exists /\ ev.pre.hdr /= "schema") =>
        /\ series = EmptySeries
        /\ \A k \in 1..Len(ev.files) :
              ev.files[k] = ev.pre \/ ev.files[k].lines = <<>>

\* C17: a second reload from the same log at the same clock value leaves
\* every series as the first reload left it.
C17_ReloadIdempotent ==
    Len(ev.loaded) >= 2 => ev.loaded[2] = ev.loaded[1]

\* C18: the poller only moves from idle to sampling (when its sleep is over)
\* and from sampling to idle with a new sleep of POLL_INTERVAL, whatever the
\* outcome of the cycle; a cycle has one fetch, whose outcome its last step
\* records; every sampling state is followed by an idle one, and every idle
\* state whose wake-up time the clock of the model can reach by a sampling
\* one.
C18_PollerNeverStops ==
    /\ [][ /\ pc \in {"idle", "sampling"}
           /\ (pc = "idle" /\ pc' /= pc) =>
                  (pc' = "sampling" /\ now >= wakeAt /\ t_ms' = now)
           /\ (pc = "sampling" /\ pc' /= pc) => pc' = "idle"
           /\ (pc = "sampling" /\ pc' = "idle" /\ restarts' = restarts) =>
                  /\ wakeAt' = now + POLL_INTERVAL
                  /\ ev'.op = "poll" /\ ev'.cycleT = t_ms
                  /\ ev'.fetchOK \in BOOLEAN
         ]_vars
    /\ (pc = "sampling") ~> (pc = "idle")
    /\ (pc = "idle" /\ wakeAt <= MaxTime) ~> (pc = "sampling")

\* sampling again after a cycle whose append to the log failed
C18_Witness ==
    /\ pc = "sampling"
    /\ ev.op = "poll" /\ ev.persist = "fail"
    /\ t_ms > ev.cycleT
    /\ restarts = 0

RECURSIVE DropWhileOld(_, _, _)
\* evict from the head while (t - head.timestamp) > horizon
DropWhileOld(s, t, horizon) ==
    IF Len(s) > 0 /\ t - Head(s).ts > horizon THEN DropWhileOld(Tail(s), t, horizon)
    ELSE s

\* the specified procedure: push to the tail, evict from the head by age,
\* then evict from the head while the length exceeds the capacity
ProcedureAppend(s, x, cap, horizon) ==
    LastN(DropWhileOld(Append(s, x), x.ts, horizon), cap)

NonDecreasing(s) == \A i \in 1..(Len(s) - 1) : s[i].ts <= s[i + 1].ts

\* C19 as claimed: for every prior series the poller's append gives the
\* series that the specified procedure gives.
C19_AppendEqualsProcedure ==
    ev.op = "appended" =>
        series["m1"] = ProcedureAppend(ev.prior, [ts |-> ev.t, val |-> VMid],
                                       ev.cap, ev.hor)

\* C19 as amended: the same for every prior series whose timestamps are in
\* non-decreasing order, capacity 0 included; and for every prior series
\* the result is a tail of the prior series followed by the new sample
\* (eviction is oldest-first).
C19_AppendRefinesProcedure ==
    ev.op = "appended" =>
        LET x   == [ts |-> ev.t, val |-> VMid]
            all == Append(ev.prior, x)
        IN  /\ NonDecreasing(ev.prior) =>
                  series["m1"] = ProcedureAppend(ev.prior, x, ev.cap, ev.hor)
            /\ series["m1"] = LastN(all, Len(series["m1"]))

\* a full deque whose head is dropped for the new sample and whose next
\* sample is dropped for its age
C19_Witness ==
    /\ ev.op = "appended"
    /\ NonDecreasing(ev.prior)
    /\ Len(ev.prior) = ev.cap /\ ev.cap >= 2
    /\ Len(series["m1"]) = ev.cap - 1
    /\ ev.t - ev.prior[2].ts > ev.hor

\* C20: after every completed poll cycle, with cycle timestamp t, every sample
\* of every series satisfies t - timestamp <= RETENTION_MS.
C20_MemoryWithinRetention ==
    ev.op = "poll" =>
        \A m \in METRICS : \A i \in 1..Len(series[m]) :
            ev.cycleT - series[m][i].ts <= RETENTION_MS

=============================================================================
